---- MODULE Spec2Model ----
(***************************************************************************)
(* Connectivity and session coordination layer of the Twende client.       *)
(*                                                                         *)
(*   - AuthProvider (frontend/shared/hooks.ts): login, register, logout,   *)
(*     refreshToken and the automatic refresh interval, over the React     *)
(*     state / localStorage copy of the session.                           *)
(*   - createApiClient interceptors and ApiService (frontend/shared/       *)
(*     api.ts): the request gateway over the AsyncStorage copy of the      *)
(*     session.                                                            *)
(*   - WebSocketService / NativeWebSocketService (frontend/shared/         *)
(*     hooks.ts): connection, reconnection and listener dispatch.          *)
(*                                                                         *)
(* JavaScript runs one callback at a time; every `await` is a suspension   *)
(* point.  An action of this model is one run-to-suspension step: the      *)
(* completion of the awaited operation together with the synchronous code  *)
(* that follows it, up to the next await.                                  *)
(***************************************************************************)
EXTENDS Integers, Sequences, FiniteSets, Bags, TLC

Null == 0                     \* null / undefined / absent entry

\* ---- bounds of the model ----
MaxTok == 3                   \* tokens the server issues in one run
MaxOps == 3                   \* AuthProvider network operations in one run
MaxCalls == 1                 \* gateway calls in one run
MaxRacing == 2                \* gateway calls in flight together
MaxHandles == 3               \* transports alive at one time
MaxTimers == 2                \* reconnect timers pending at one time
MaxListeners == 2             \* listener registrations held at one time
MaxDisconnects == 2           \* disconnect() calls in one run
MaxSends == 1                 \* outbound emitter calls in one run
MaxMessages == 2              \* messages followed callback by callback

VARIABLES
  \* server
  nextTok,                    \* next fresh token value the server hands out
  \* AuthProvider (hooks.ts:996-1178)
  user, authToken, refreshTokenValue, userData,
  ops,                        \* log of login/register/refresh invocations
  \* AsyncStorage and the api.ts gateway
  storage,                    \* AsyncStorage entries of the session
  calls,                      \* requests made through apiClient
  \* WebSocketService / NativeWebSocketService
  variant,                    \* "socketio" | "native": the class in use
  socket,                     \* this.socket / this.ws (Null or a transport)
  transports,                 \* state of the transports, by slot
  reconnectAttempts,
  timers,                     \* bag of the delays of the pending setTimeouts
  conn,                       \* bag of the connect() invocations in progress
  consecFail,                 \* failures since the last open (history)
  armed,                      \* delays armed since the last open (history)
  disconnects,                \* disconnect() calls made so far (history)
  sends,                      \* outbound emitter calls made and frames
                              \* written to a transport (history)
  \* event emitter of the two services
  listeners,                  \* this.listeners: event -> callbacks, in order
  emitted,                    \* the latest inbound message and its dispatch
  offd,                       \* <<event, callback>> pairs off() has returned
                              \* for, until on() registers them again (history)
  dispatch                    \* the forEach of emit, callback by callback

srvVars  == <<nextTok>>
authVars == <<user, authToken, refreshTokenValue, userData, ops>>
stVars   == <<storage>>
gwVars   == <<calls>>
useVars  == <<disconnects, sends>>
wsVars   == <<variant, socket, transports, reconnectAttempts, timers, conn,
             consecFail, armed, useVars>>
rtVars   == <<listeners, emitted, offd, dispatch>>
vars     == <<srvVars, authVars, stVars, gwVars, wsVars, rtVars>>

Range(s) == {s[i] : i \in DOMAIN s}

Min(S) == CHOOSE x \in S : \A y \in S : x <= y

\* ======================================================================
\* AuthProvider
\* ======================================================================

\* One invocation of login / register / refreshToken.
\*   kind   "login" | "register" | "refresh"
\*   caller "direct" | "timer"
\*   rt     refresh token sent with the request (Null: none)
\*   req    id of the network request that serves this invocation (0: none)
\*   st     "pending" | "ok" | "failed"
\*   tok    access token obtained (Null: none)
\*   batch  index of the first refresh invocation that was in flight when
\*          this one started (its own index when none was)
\*   stale  a logout ran while this invocation was suspended
\*   cause  why it failed: "none" | "noToken" | "invalid" | "rejected"
\*          | "network" | "error"
Op(kind, caller, rt, req, st, batch) ==
  [kind |-> kind, caller |-> caller, rt |-> rt, req |-> req, st |-> st,
   tok |-> Null, batch |-> batch, stale |-> FALSE,
   cause |-> IF st = "failed" THEN "noToken" ELSE "none"]

PendingOps == {i \in DOMAIN ops : ops[i].st = "pending"}
PendingRefresh == {i \in PendingOps : ops[i].kind = "refresh"}

\* variant: the user is kept
clearAuth_keepUser ==
  /\ authToken' = Null
  /\ refreshTokenValue' = Null
  /\ UNCHANGED <<user, userData>>

\* clearAuth
clearAuth ==
  /\ user' = Null
  /\ authToken' = Null
  /\ refreshTokenValue' = Null
  /\ userData' = Null

\* variant: the effect looks at the access token only
TimerArmed_access == authToken # Null

\* The interval of the automatic-refresh effect exists exactly while the
\* effect's condition holds (the cleanup clears it when a dependency changes).
TimerArmed == authToken # Null /\ refreshTokenValue # Null

\* login / register up to the awaited api.post
AuthStart(kind) ==
  /\ kind \in {"login", "register"}
  /\ Len(ops) < MaxOps
  /\ ops' = Append(ops, Op(kind, "direct", Null, Len(ops) + 1, "pending", 0))
  /\ UNCHANGED <<user, authToken, refreshTokenValue, userData, nextTok>>
  /\ UNCHANGED <<stVars, gwVars, wsVars, rtVars>>

\* login / register after the awaited api.post
\*   "ok"      response carries access and refresh
\*   "invalid" response lacks one of them: throws 'Invalid response'
\*   "error"   the request was rejected or failed
AuthDone(i, outcome) ==
  /\ i \in PendingOps
  /\ ops[i].kind \in {"login", "register"}
  /\ \/ /\ outcome = "ok"
        /\ nextTok <= MaxTok
        /\ authToken' = nextTok
        /\ refreshTokenValue' = nextTok
        /\ userData' = nextTok
        /\ user' = nextTok
        /\ nextTok' = nextTok + 1
        /\ ops' = [ops EXCEPT ![i].st = "ok", ![i].tok = nextTok]
     \/ /\ outcome \in {"invalid", "error"}
        /\ ops' = [ops EXCEPT ![i].st = "failed", ![i].cause = outcome]
        /\ UNCHANGED <<user, authToken, refreshTokenValue, userData, nextTok>>
  /\ UNCHANGED <<stVars, gwVars, wsVars, rtVars>>

\* logout: the server call is fired and not awaited, the finally block
\* clears the local session
logout ==
  /\ clearAuth
  /\ ops' = [i \in DOMAIN ops |->
               IF ops[i].st = "pending" THEN [ops[i] EXCEPT !.stale = TRUE]
               ELSE ops[i]]
  /\ UNCHANGED <<nextTok, stVars, gwVars, wsVars, rtVars>>

\* refreshToken up to the awaited api.post (or the throw when no refresh
\* token is held, which the catch turns into clearAuth)
RefreshStart(caller) ==
  /\ caller \in {"direct", "timer"}
  /\ caller = "timer" => TimerArmed
  /\ Len(ops) < MaxOps
  /\ LET n == Len(ops) + 1
         b == IF PendingRefresh = {} THEN n ELSE ops[Min(PendingRefresh)].batch
     IN  IF refreshTokenValue = Null
         THEN /\ clearAuth
              /\ ops' = Append(ops, Op("refresh", caller, Null, 0, "failed", b))
         ELSE /\ ops' = Append(ops, Op("refresh", caller, refreshTokenValue,
                                       n, "pending", b))
              /\ UNCHANGED <<user, authToken, refreshTokenValue, userData>>
  /\ UNCHANGED <<nextTok, stVars, gwVars, wsVars, rtVars>>

\* variant: a successful refresh drops the refresh token
RefreshDone_forget(i, outcome) ==
  /\ i \in PendingRefresh
  /\ \/ /\ outcome = "ok"
        /\ nextTok <= MaxTok
        /\ authToken' = nextTok
        /\ userData' = nextTok
        /\ user' = nextTok
        /\ nextTok' = nextTok + 1
        /\ ops' = [ops EXCEPT ![i].st = "ok", ![i].tok = nextTok]
        /\ refreshTokenValue' = Null
     \/ /\ outcome \in {"invalid", "rejected", "network"}
        /\ clearAuth
        /\ ops' = [ops EXCEPT ![i].st = "failed", ![i].cause = outcome]
        /\ UNCHANGED nextTok
  /\ UNCHANGED <<stVars, gwVars, wsVars, rtVars>>

\* refreshToken after the awaited api.post
\*   "ok"      response carries access
\*   "invalid"  response lacks access: throws 'Invalid refresh response'
\*   "rejected" the server rejected the refresh token
\*   "network"  the request failed without an answer (network error,
\*              timeout)
RefreshDone(i, outcome) ==
  /\ i \in PendingRefresh
  /\ \/ /\ outcome = "ok"
        /\ nextTok <= MaxTok
        /\ authToken' = nextTok
        /\ userData' = nextTok
        /\ user' = nextTok
        /\ nextTok' = nextTok + 1
        /\ ops' = [ops EXCEPT ![i].st = "ok", ![i].tok = nextTok]
        /\ UNCHANGED refreshTokenValue
     \/ /\ outcome \in {"invalid", "rejected", "network"}
        /\ clearAuth
        /\ ops' = [ops EXCEPT ![i].st = "failed", ![i].cause = outcome]
        /\ UNCHANGED nextTok
  /\ UNCHANGED <<stVars, gwVars, wsVars, rtVars>>

AuthInit ==
  /\ user = Null
  /\ authToken = Null
  /\ refreshTokenValue = Null
  /\ userData = Null
  /\ ops = <<>>

NextAuth ==
  \/ \E kind \in {"login", "register"} : AuthStart(kind)
  \/ \E i \in DOMAIN ops, o \in {"ok", "invalid", "error"} : AuthDone(i, o)
  \/ logout
  \/ \E caller \in {"direct", "timer"} : RefreshStart(caller)
  \/ \E i \in DOMAIN ops, o \in {"ok", "invalid", "rejected", "network"} :
       RefreshDone(i, o)


\* ======================================================================
\* AsyncStorage helpers of api.ts
\* ======================================================================

Keys == {"access_token", "refresh_token", "user"}

EmptyStore == [k \in Keys |-> Null]

\* AsyncStorage.multiRemove(keys)
multiRemove(st, keys) == [k \in Keys |-> IF k \in keys THEN Null ELSE st[k]]

\* keys removed by ApiService.logout and clearStoredData
SessionKeys == {"access_token", "refresh_token", "user"}

\* variant: the catch removes the two tokens and leaves the user record
RefreshFailedKeys_tokensOnly == {"access_token", "refresh_token"}

\* keys removed by the catch of the response interceptor
RefreshFailedKeys == {"access_token", "refresh_token", "user"}

\* storeAuthTokens with the tokens of a login response
storeAuthTokens ==
  /\ nextTok <= MaxTok
  /\ storage' = [storage EXCEPT !["access_token"] = nextTok,
                                !["refresh_token"] = nextTok]
  /\ nextTok' = nextTok + 1
  /\ UNCHANGED <<calls, authVars, wsVars, rtVars>>

\* storeUser
storeUser ==
  /\ storage["user"] = Null
  /\ storage' = [storage EXCEPT !["user"] = 1]
  /\ UNCHANGED <<calls, nextTok, authVars, wsVars, rtVars>>

CallIds == 1 .. MaxCalls

\* the requests of callers that do not wait for one another
RaceIds == 1 .. MaxRacing

\* clearStoredData
clearStoredData ==
  /\ storage # EmptyStore
  /\ storage' = multiRemove(storage, SessionKeys)
  /\ UNCHANGED <<calls, nextTok, authVars, wsVars, rtVars>>

\* ======================================================================
\* Request gateway: createApiClient interceptors, ApiService.logout
\* ======================================================================

\* One request made through apiClient.
\*   pc        "idle" | "reqIntercept" | "sent" | "readRT" | "refreshing"
\*             | "storing" | "clearing" | "removing" | "done"
\*   kind      "data" | "logout" (ApiService.logout)
\*   retry     originalRequest._retry
\*   hdr       token of the Authorization header (Null: no header)
\*   sentRT    refresh token posted by the 401 handler
\*   access    access token the 401 handler obtained
\*   refreshed "none" | "ok" | "failed": outcome of the handler's refresh
\*   cause     why the refresh failed: "none" | "rejected" | "network"
\*   nRefresh  refresh requests posted for this call
\*   nSend     times the request went out
\*   status    status of the latest response ("none" while one is awaited)
\*   retryTok  token carried by the re-issued request
\*   atRetry   access_token entry when the re-issued request was annotated
\*   result    "none" | "ok" | "unauthorized" | "error"
\*   endStore  AsyncStorage when the call settled
NewCall ==
  [pc |-> "idle", kind |-> "data", retry |-> FALSE, hdr |-> Null,
   sentRT |-> Null, access |-> Null, refreshed |-> "none", cause |-> "none",
   nRefresh |-> 0, nSend |-> 0, status |-> "none", retryTok |-> Null, atRetry |-> Null,
   result |-> "none", endStore |-> EmptyStore]

\* variant: the request interceptor leaves an existing header alone
AuthHeader_keep(stored, hdr) == hdr

\* request interceptor: the header is set only when a token is stored
AuthHeader(stored, hdr) == IF stored # Null THEN stored ELSE hdr

\* variant: the _retry marker is not consulted
ShouldRefresh_noMarker(status, retry) == status = "401"

\* condition under which the response interceptor starts a refresh
ShouldRefresh(status, retry) == status = "401" /\ ~retry

\* apiClient.get/post/...: the request interceptor starts and awaits getItem
CallStart(c, kind) ==
  /\ calls[c].pc = "idle"
  /\ \A b \in CallIds : b < c => calls[b].pc # "idle"
  /\ calls' = [calls EXCEPT ![c].pc = "reqIntercept", ![c].kind = kind]
  /\ UNCHANGED <<storage, nextTok, authVars, wsVars, rtVars>>

\* request interceptor after getItem('access_token'): the request goes out
ReqIntercept(c) ==
  /\ calls[c].pc = "reqIntercept"
  /\ LET h == AuthHeader(storage["access_token"], calls[c].hdr)
     IN  calls' = [calls EXCEPT
                     ![c].pc = "sent",
                     ![c].hdr = h,
                     ![c].nSend = @ + 1,
                     ![c].status = "none",
                     ![c].retryTok = IF calls[c].retry THEN h ELSE @,
                     ![c].atRetry = IF calls[c].retry
                                    THEN storage["access_token"] ELSE @]
  /\ UNCHANGED <<storage, nextTok, authVars, wsVars, rtVars>>

\* the response arrives: "ok", "401", or "error" (any other failure:
\* network error, timeout, 5xx)
Respond(c, status) ==
  /\ calls[c].pc = "sent"
  /\ status \in {"ok", "401", "error"}
  /\ IF status = "ok"
     THEN calls' = [calls EXCEPT
                      ![c].status = status,
                      ![c].pc = IF calls[c].kind = "logout" THEN "removing"
                                ELSE "done",
                      ![c].result = IF calls[c].kind = "logout" THEN @ ELSE "ok",
                      ![c].endStore = storage]
     ELSE IF ShouldRefresh(status, calls[c].retry)
     THEN calls' = [calls EXCEPT ![c].status = status,
                                 ![c].pc = "readRT", ![c].retry = TRUE]
     ELSE calls' = [calls EXCEPT
                      ![c].status = status,
                      ![c].pc = "done",
                      ![c].result = IF status = "401" THEN "unauthorized"
                                    ELSE "error",
                      ![c].endStore = storage]
  /\ UNCHANGED <<storage, nextTok, authVars, wsVars, rtVars>>

\* variant: a 401 without a stored refresh token clears the store
ReadRT_clear(c) ==
  /\ calls[c].pc = "readRT"
  /\ IF storage["refresh_token"] # Null
     THEN calls' = [calls EXCEPT ![c].pc = "refreshing",
                                 ![c].sentRT = storage["refresh_token"],
                                 ![c].nRefresh = @ + 1]
     ELSE calls' = [calls EXCEPT ![c].pc = "clearing",
                                 ![c].refreshed = "failed"]
  /\ UNCHANGED <<storage, nextTok, authVars, wsVars, rtVars>>

\* 401 handler after getItem('refresh_token'): post the refresh, or fall
\* through to the rejection when no refresh token is stored
ReadRT(c) ==
  /\ calls[c].pc = "readRT"
  /\ IF storage["refresh_token"] # Null
     THEN calls' = [calls EXCEPT ![c].pc = "refreshing",
                                 ![c].sentRT = storage["refresh_token"],
                                 ![c].nRefresh = @ + 1]
     ELSE calls' = [calls EXCEPT ![c].pc = "done",
                                 ![c].result = "unauthorized",
                                 ![c].endStore = storage]
  /\ UNCHANGED <<storage, nextTok, authVars, wsVars, rtVars>>

\* 401 handler after the refresh post: setItem is started on success,
\* multiRemove (in the catch) on failure
\*   "ok"       the response carries the access token
\*   "rejected" the server rejected the refresh token
\*   "network"  the post failed without an answer
RefreshRespond(c, outcome) ==
  /\ calls[c].pc = "refreshing"
  /\ outcome \in {"ok", "rejected", "network"}
  /\ IF outcome = "ok"
     THEN /\ nextTok <= MaxTok
          /\ calls' = [calls EXCEPT ![c].pc = "storing",
                                    ![c].access = nextTok,
                                    ![c].refreshed = "ok"]
          /\ nextTok' = nextTok + 1
     ELSE /\ calls' = [calls EXCEPT ![c].pc = "clearing",
                                    ![c].refreshed = "failed",
                                    ![c].cause = outcome]
          /\ UNCHANGED nextTok
  /\ UNCHANGED <<storage, authVars, wsVars, rtVars>>

\* variant: storing the new access token also makes the WebSocket service
\* connect again
StoreDone_reconnect(c) ==
  /\ calls[c].pc = "storing"
  /\ storage' = [storage EXCEPT !["access_token"] = calls[c].access]
  /\ calls' = [calls EXCEPT ![c].pc = "reqIntercept",
                            ![c].hdr = calls[c].access]
  /\ conn' = conn (+) SetToBag({[pc |-> "readToken", token |-> Null]})
  /\ UNCHANGED <<variant, socket, transports, reconnectAttempts, timers,
                 consecFail, armed, useVars>>
  /\ UNCHANGED <<nextTok, authVars, rtVars>>

\* 401 handler after setItem('access_token'): the header is replaced and
\* client(originalRequest) runs the request interceptor again
StoreDone(c) ==
  /\ calls[c].pc = "storing"
  /\ storage' = [storage EXCEPT !["access_token"] = calls[c].access]
  /\ calls' = [calls EXCEPT ![c].pc = "reqIntercept",
                            ![c].hdr = calls[c].access]
  /\ UNCHANGED <<nextTok, authVars, wsVars, rtVars>>

\* catch of the 401 handler after multiRemove: the original error is
\* rejected
ClearDone(c) ==
  /\ calls[c].pc = "clearing"
  /\ storage' = multiRemove(storage, RefreshFailedKeys)
  /\ calls' = [calls EXCEPT ![c].pc = "done",
                            ![c].result = "unauthorized",
                            ![c].endStore = storage']
  /\ UNCHANGED <<nextTok, authVars, wsVars, rtVars>>

\* ApiService.logout after the awaited post succeeded: multiRemove
LogoutRemove(c) ==
  /\ calls[c].pc = "removing"
  /\ storage' = multiRemove(storage, SessionKeys)
  /\ calls' = [calls EXCEPT ![c].pc = "done",
                            ![c].result = "ok",
                            ![c].endStore = storage']
  /\ UNCHANGED <<nextTok, authVars, wsVars, rtVars>>

GatewayInit ==
  /\ storage \in {EmptyStore, [k \in Keys |-> 1]}
  /\ calls = [c \in CallIds \cup RaceIds |-> NewCall]

NextGateway ==
  \/ storeAuthTokens
  \/ storeUser
  \/ clearStoredData
  \/ \E c \in CallIds, kind \in {"data", "logout"} : CallStart(c, kind)
  \/ \E c \in CallIds : ReqIntercept(c)
  \/ \E c \in CallIds, s \in {"ok", "401", "error"} : Respond(c, s)
  \/ \E c \in CallIds : ReadRT(c)
  \/ \E c \in CallIds, o \in {"ok", "rejected", "network"} :
       RefreshRespond(c, o)
  \/ \E c \in CallIds : StoreDone(c)
  \/ \E c \in CallIds : ClearDone(c)
  \/ \E c \in CallIds : LogoutRemove(c)


\* ======================================================================
\* WebSocketService (socket.io) and NativeWebSocketService (WebSocket)
\* ======================================================================
\* Both classes share their code line for line except for the transport
\* they drive; `variant` selects the class.
\*
\* A socket.io Socket is created with the library defaults, so the library
\* keeps retrying on its own: 'connect_error' may be reported again for the
\* same Socket, and after 'disconnect' the same Socket may report 'connect'
\* again.  A WebSocket is single-use: it reports at most one open and one
\* close.  Transport states: "none" (free slot), "connecting", "open",
\* "closing" (WebSocket only), "closed".  A closed transport that the
\* service no longer references reports nothing any more and is garbage:
\* its slot becomes free again.

maxReconnectAttempts == 5
reconnectDelay == 1000

Handles == 1 .. MaxHandles

Created == {h \in Handles : transports[h] # "none"}

Free == Handles \ Created

Collect(tr, ref) ==
  [h \in Handles |-> IF tr[h] = "closed" /\ h # ref THEN "none" ELSE tr[h]]

RECURSIVE Pow2(_)
Pow2(n) == IF n <= 0 THEN 1 ELSE 2 * Pow2(n - 1)

\* variant: the guard compares with <=
CanReconnect_inclusive(attempts) == attempts <= maxReconnectAttempts

\* handleReconnect: the guard
CanReconnect(attempts) == attempts < maxReconnectAttempts

\* variant: a delay that grows linearly
ReconnectDelay_linear(attempts) == reconnectDelay * attempts

\* handleReconnect: the delay, computed after the increment
ReconnectDelay(attempts) == reconnectDelay * Pow2(attempts - 1)

Saturate(n) == IF n > maxReconnectAttempts THEN maxReconnectAttempts + 1 ELSE n

\* handleReconnect
handleReconnect ==
  /\ consecFail' = Saturate(consecFail + 1)
  /\ IF CanReconnect(reconnectAttempts)
     THEN /\ BagCardinality(timers) < MaxTimers
          /\ reconnectAttempts' = reconnectAttempts + 1
          /\ timers' = timers (+) SetToBag({ReconnectDelay(reconnectAttempts + 1)})
          /\ armed' = Append(armed, ReconnectDelay(reconnectAttempts + 1))
     ELSE UNCHANGED <<reconnectAttempts, timers, armed>>

\* the 'connect' / onopen handler
OnOpened ==
  /\ reconnectAttempts' = 0
  /\ consecFail' = 0
  /\ armed' = <<>>

\* connect() is entered (constructor, or the setTimeout callback)
ConnectCall(pc, token) == [pc |-> pc, token |-> token]

\* variant: the callback only logs
TimerFire_logOnly(d) ==
  /\ BagIn(d, timers)
  /\ timers' = timers (-) SetToBag({d})
  /\ UNCHANGED <<variant, socket, transports, reconnectAttempts, consecFail,
                 armed, conn, storage, calls, nextTok,
                 authVars, rtVars, useVars>>

\* the setTimeout callback of handleReconnect
TimerFire(d) ==
  /\ BagIn(d, timers)
  /\ Cardinality(Created) + BagCardinality(conn) < MaxHandles
  /\ timers' = timers (-) SetToBag({d})
  /\ conn' = conn (+) SetToBag({ConnectCall("readToken", Null)})
  /\ UNCHANGED <<variant, socket, transports, reconnectAttempts, consecFail,
                 armed, storage, calls, nextTok,
                 authVars, rtVars, useVars>>

\* connect() after getItem('access_token')
ConnectReadToken(x) ==
  /\ BagIn(x, conn)
  /\ x.pc = "readToken"
  /\ conn' = (conn (-) SetToBag({x}))
               (+) SetToBag({ConnectCall("readUser", storage["access_token"])})
  /\ UNCHANGED <<variant, socket, transports, reconnectAttempts, timers,
                 consecFail, armed, storage, calls, nextTok,
                 authVars, rtVars, useVars>>

\* variant: connect() schedules a retry when token or user is missing
ConnectReadUser_retry(x) ==
  /\ BagIn(x, conn)
  /\ x.pc = "readUser"
  /\ conn' = conn (-) SetToBag({x})
  /\ IF x.token = Null \/ storage["user"] = Null
     THEN /\ handleReconnect
          /\ UNCHANGED <<socket, transports>>
     ELSE LET h == Min(Free)
          IN  /\ transports' = Collect([transports EXCEPT ![h] = "connecting"], h)
              /\ socket' = h
              /\ UNCHANGED <<reconnectAttempts, timers, consecFail, armed>>
  /\ UNCHANGED <<variant, storage, calls, nextTok, authVars, rtVars, useVars>>

\* connect() after getItem('user'): return when token or user is missing,
\* else create the transport, keep it in this.socket / this.ws and attach
\* the handlers
ConnectReadUser(x) ==
  /\ BagIn(x, conn)
  /\ x.pc = "readUser"
  /\ conn' = conn (-) SetToBag({x})
  /\ IF x.token = Null \/ storage["user"] = Null
     THEN UNCHANGED <<socket, transports>>
     ELSE LET h == Min(Free)
          IN  /\ transports' = Collect([transports EXCEPT ![h] = "connecting"], h)
              /\ socket' = h
  /\ UNCHANGED <<variant, reconnectAttempts, timers, consecFail, armed,
                 storage, calls, nextTok,
                 authVars, rtVars, useVars>>

\* socket.io 'connect'
SioConnect(h) ==
  /\ variant = "socketio"
  /\ transports[h] = "connecting"
  /\ transports' = [transports EXCEPT ![h] = "open"]
  /\ OnOpened
  /\ UNCHANGED <<variant, socket, timers, conn, storage, calls, nextTok,
                 authVars, rtVars, useVars>>

\* socket.io 'connect_error'; again: the library goes on retrying
SioConnectError(h, again) ==
  /\ variant = "socketio"
  /\ transports[h] = "connecting"
  /\ transports' = Collect([transports EXCEPT
                              ![h] = IF again THEN "connecting" ELSE "closed"],
                           socket)
  /\ handleReconnect
  /\ UNCHANGED <<variant, socket, conn, storage, calls, nextTok,
                 authVars, rtVars, useVars>>

\* socket.io 'disconnect' reported by the library (transport close, ping
\* timeout, server disconnect); again: the library reconnects by itself
SioDisconnect(h, again) ==
  /\ variant = "socketio"
  /\ transports[h] = "open"
  /\ transports' = Collect([transports EXCEPT
                              ![h] = IF again THEN "connecting" ELSE "closed"],
                           socket)
  /\ handleReconnect
  /\ UNCHANGED <<variant, socket, conn, storage, calls, nextTok,
                 authVars, rtVars, useVars>>

\* WebSocket onopen
WsOpen(h) ==
  /\ variant = "native"
  /\ transports[h] = "connecting"
  /\ transports' = [transports EXCEPT ![h] = "open"]
  /\ OnOpened
  /\ UNCHANGED <<variant, socket, timers, conn, storage, calls, nextTok,
                 authVars, rtVars, useVars>>

\* WebSocket onclose (after a failed open the error handler, which only
\* logs, runs first)
WsClose(h) ==
  /\ variant = "native"
  /\ transports[h] \in {"connecting", "open", "closing"}
  /\ transports' = Collect([transports EXCEPT ![h] = "closed"], socket)
  /\ handleReconnect
  /\ UNCHANGED <<variant, socket, conn, storage, calls, nextTok,
                 authVars, rtVars, useVars>>

\* variant: the call leaves the transport as it is
closeCall_noop(st) == st

\* this.socket.disconnect() / this.ws.close(): the state the transport is
\* left in by the call
closeCall(st) ==
  IF variant = "socketio" THEN "closed"
  ELSE IF st \in {"connecting", "open"} THEN "closing" ELSE st

\* disconnect(): Socket.disconnect() reports 'disconnect' at once when the
\* Socket is connected; WebSocket.close() reports the close later
disconnect ==
  /\ disconnects < MaxDisconnects
  /\ disconnects' = disconnects + 1
  /\ socket' = Null
  /\ IF socket = Null
     THEN UNCHANGED <<transports, reconnectAttempts, timers, consecFail, armed>>
     ELSE /\ transports' =
               Collect([transports EXCEPT ![socket] = closeCall(@)], Null)
          /\ IF variant = "socketio" /\ transports[socket] = "open"
             THEN handleReconnect
             ELSE UNCHANGED <<reconnectAttempts, timers, consecFail, armed>>
  /\ UNCHANGED <<variant, conn, storage, calls, nextTok,
                 authVars, rtVars, sends>>

\* the public outbound methods of the class in use
OutboundEmitters ==
  {"subscribeToSchedule", "unsubscribeFromSchedule", "updateDriverLocation",
   "updateDriverStatus"}
    \cup (IF variant = "socketio" THEN {"getLocation"} ELSE {"send"})

\* variant: a held transport is taken for a connected one
isConnected_held == socket # Null

\* this.socket?.connected / this.ws?.readyState === WebSocket.OPEN
isConnected == socket # Null /\ transports[socket] = "open"

\* send and the outbound emitters: the frame is written when the held
\* transport is connected, else the call returns without doing anything
send(emitter) ==
  /\ emitter \in OutboundEmitters
  /\ sends.calls < MaxSends
  /\ sends' = [calls |-> sends.calls + 1,
               frames |-> IF isConnected THEN sends.frames + 1
                          ELSE sends.frames]
  /\ UNCHANGED <<variant, socket, transports, reconnectAttempts, timers,
                 conn, consecFail, armed, disconnects, storage, calls,
                 nextTok, authVars, rtVars>>

\* the constructor has called connect()
WsInit ==
  /\ variant \in {"socketio", "native"}
  /\ socket = Null
  /\ transports = [h \in Handles |-> "none"]
  /\ reconnectAttempts = 0
  /\ timers = EmptyBag
  /\ conn = SetToBag({ConnectCall("readToken", Null)})
  /\ consecFail = 0
  /\ armed = <<>>
  /\ disconnects = 0
  /\ sends = [calls |-> 0, frames |-> 0]

\* connect() and the transport events
Reconnection ==
  \/ \E d \in BagToSet(timers) : TimerFire(d)
  \/ \E x \in BagToSet(conn) : ConnectReadToken(x)
  \/ \E x \in BagToSet(conn) : ConnectReadUser(x)
  \/ \E h \in Handles : SioConnect(h)
  \/ \E h \in Handles, again \in BOOLEAN : SioConnectError(h, again)
  \/ \E h \in Handles, again \in BOOLEAN : SioDisconnect(h, again)
  \/ \E h \in Handles : WsOpen(h)
  \/ \E h \in Handles : WsClose(h)

NextConn ==
  \/ Reconnection
  \/ disconnect


\* ======================================================================
\* Event emitter and inbound dispatch of the two services
\* ======================================================================

Topics == {"location_update", "booking_update", "schedule_update",
           "notification"}

\* "unknown" is a type handleMessage has no case for; "unparsable" is a
\* frame JSON.parse rejects
MessageTypes == {"driver_location_update", "booking_update",
                 "schedule_status_update", "notification", "unknown",
                 "unparsable"}

Callbacks == {"f", "g"}

\* events the feature code registers on
ListenedEvents == {"location_update", "notification"}

Data == {1, 2}

\* variant: every message is re-emitted as a notification
TopicOf_notification(type) == "notification"

\* handleMessage's switch / the socket.on registrations of
\* setupEventListeners: the event a message type is re-emitted as; an
\* unparsable frame never reaches the switch (the catch of onmessage)
TopicOf(type) ==
  CASE type = "driver_location_update" -> "location_update"
    [] type = "booking_update"         -> "booking_update"
    [] type = "schedule_status_update" -> "schedule_update"
    [] type = "notification"           -> "notification"
    [] OTHER                           -> "none"

Registrations == LET RECURSIVE Sum(_)
                     Sum(T) == IF T = {} THEN 0
                               ELSE LET t == CHOOSE x \in T : TRUE
                                    IN  Len(listeners[t]) + Sum(T \ {t})
                 IN  Sum(Topics)

\* on(event, callback)
on(event, callback) ==
  /\ Registrations < MaxListeners
  /\ listeners' = [listeners EXCEPT ![event] = Append(@, callback)]
  /\ offd' = offd \ {<<event, callback>>}
  /\ UNCHANGED <<emitted, dispatch, srvVars, authVars, stVars, gwVars, wsVars>>

\* variant: only the first registration of the callback is removed
Filter_first(cbs, callback) ==
  LET hits == {k \in DOMAIN cbs : cbs[k] = callback}
  IN  IF hits = {} THEN cbs
      ELSE LET m == Min(hits)
           IN  [k \in 1 .. Len(cbs) - 1 |-> IF k < m THEN cbs[k] ELSE cbs[k + 1]]

\* variant: only the last registration of the callback is removed
Filter_last(cbs, callback) ==
  LET hits == {k \in DOMAIN cbs : cbs[k] = callback}
  IN  IF hits = {} THEN cbs
      ELSE LET m == CHOOSE k \in hits : \A j \in hits : j <= k
           IN  [k \in 1 .. Len(cbs) - 1 |->
                  IF k < m THEN cbs[k] ELSE cbs[k + 1]]

\* the filter of off
Filter(cbs, callback) == SelectSeq(cbs, LAMBDA cb : cb # callback)

\* this.listeners after off(event, callback)
OffResult(event, callback) ==
  [listeners EXCEPT ![event] = Filter(@, callback)]

\* off(event, callback)
off(event, callback) ==
  /\ listeners' = OffResult(event, callback)
  /\ offd' = offd \cup {<<event, callback>>}
  /\ UNCHANGED <<emitted, dispatch, srvVars, authVars, stVars, gwVars, wsVars>>

\* variant: an event without a list of its own goes to every listener
emit_broadcast(event) ==
  IF event \in Topics THEN listeners[event]
  ELSE listeners["location_update"] \o listeners["notification"]

\* emit(event, data): the callbacks invoked, in order
emit(event) == IF event \in Topics THEN listeners[event] ELSE <<>>

\* variant: the handlers of the earlier transports are carried over to
\* the transport that replaces them
Handlers_carried(h) == IF transports[h] = "none" THEN 0 ELSE h

\* handlers a transport holds for one inbound event: setupEventListeners
\* runs once on each socket connect creates, and ws.onmessage is assigned
\* once on each WebSocket
Handlers(h) == IF transports[h] = "none" THEN 0 ELSE 1

RECURSIVE Times(_, _)
\* the calls made when n handlers run emit one after the other
Times(cbs, n) == IF n = 0 THEN <<>> ELSE cbs \o Times(cbs, n - 1)

\* an inbound message on transport h: the socket.on handler of its event
\* (socket.io; no handler exists for other events) or onmessage and
\* handleMessage (WebSocket). Every callback is called with the data of
\* the message (args); an unparsable frame yields no data
Message(h, type, data) ==
  /\ transports[h] \in {"open", "closing"}
  /\ LET d   == IF type = "unparsable" THEN Null ELSE data
         cbs == Times(emit(TopicOf(type)), Handlers(h))
     IN  emitted' = [type |-> type, event |-> TopicOf(type), data |-> d,
                     invoked |-> cbs, args |-> [k \in DOMAIN cbs |-> d]]
  /\ UNCHANGED <<listeners, offd, dispatch>>
  /\ UNCHANGED <<srvVars, authVars, stVars, gwVars, wsVars>>

\* The handler of an inbound message, followed callback by callback, for
\* callbacks that throw or call on / off while they run.
\*   n       messages handled so far (history)
\*   event   the event emit was called with
\*   arr     the array forEach walks (this.listeners[event] at the call)
\*   same    this.listeners[event] is still that array (off replaces it,
\*           on pushes onto it)
\*   len     its length when forEach started
\*   idx     index of the next callback
\*   first   the callbacks registered when forEach started (history)
\*   called  the callbacks invoked so far for this message (history)
\*   thrown  a callback has thrown (history)
NoDispatch ==
  [n |-> 0, event |-> "none", arr |-> <<>>, same |-> TRUE, len |-> 0,
   idx |-> 1, first |-> <<>>, called |-> <<>>, thrown |-> FALSE]

\* variant: the length is read again before every visit
Bound_live(len, arr) == Len(arr)

\* the indices forEach visits: fixed when it starts
Bound(len, arr) == len

\* forEach has callbacks left to visit: the handler has not returned
Running == dispatch.idx <= Bound(dispatch.len, dispatch.arr)

\* variant: handlers of different messages run interleaved
HandlerIdle_always == TRUE

\* a handler runs to completion before the next event is taken
HandlerIdle == ~Running

\* an inbound message on transport h reaches emit: forEach starts
Arrive(h, type) ==
  /\ transports[h] \in {"open", "closing"}
  /\ HandlerIdle
  /\ dispatch.n < MaxMessages
  /\ LET cbs == emit(TopicOf(type))
     IN  dispatch' = [n |-> dispatch.n + 1, event |-> TopicOf(type),
                      arr |-> cbs, same |-> TRUE, len |-> Len(cbs),
                      idx |-> 1, first |-> cbs, called |-> <<>>,
                      thrown |-> FALSE]
  /\ UNCHANGED <<listeners, emitted, offd>>
  /\ UNCHANGED <<srvVars, authVars, stVars, gwVars, wsVars>>

\* forEach calls the next callback, which
\*   "return"  returns
\*   "throw"   throws: forEach is left, the exception reaches the catch of
\*             onmessage or the socket.io library
\*   "off"     calls off(event, cb) and returns
\*   "on"      calls on(event, cb) and returns
Invoke(does, cb) ==
  /\ Running
  /\ does \in {"return", "throw", "off", "on"}
  /\ LET e    == dispatch.event
         d    == [dispatch EXCEPT !.called = Append(@, dispatch.arr[dispatch.idx]),
                                  !.idx = @ + 1]
     IN  CASE does = "return" ->
                /\ dispatch' = d
                /\ UNCHANGED <<listeners, offd>>
           [] does = "throw" ->
                /\ dispatch' = [d EXCEPT !.idx = Len(dispatch.arr) + 1,
                                         !.thrown = TRUE]
                /\ UNCHANGED <<listeners, offd>>
           [] does = "off" ->
                /\ listeners' = OffResult(e, cb)
                /\ offd' = offd \cup {<<e, cb>>}
                /\ dispatch' = [d EXCEPT !.same = FALSE]
           [] does = "on" ->
                /\ Registrations < MaxListeners
                /\ listeners' = [listeners EXCEPT ![e] = Append(@, cb)]
                /\ offd' = offd \ {<<e, cb>>}
                /\ dispatch' = [d EXCEPT !.arr = IF dispatch.same
                                                 THEN Append(@, cb) ELSE @]
  /\ UNCHANGED <<emitted, srvVars, authVars, stVars, gwVars, wsVars>>

RouterInit ==
  /\ dispatch = NoDispatch
  /\ listeners = [t \in Topics |-> <<>>]
  /\ emitted = [type |-> "none", event |-> "none", data |-> Null,
                invoked |-> <<>>, args |-> <<>>]
  /\ offd = {}

NextRouter ==
  \/ \E t \in ListenedEvents, cb \in Callbacks : on(t, cb)
  \/ \E t \in ListenedEvents, cb \in Callbacks : off(t, cb)
  \/ \E h \in Handles, ty \in MessageTypes, d \in Data : Message(h, ty, d)

\* ======================================================================
\* Session authority and request gateway: properties
\* ======================================================================

RefreshOps == {i \in DOMAIN ops : ops[i].kind = "refresh"}

\* C1: refresh is single-flight: refreshToken invocations that start while
\* a refresh is in flight are served by the one network request of the
\* first invocation, and all of them end with the same outcome.
C1_SingleFlightRefresh ==
  \A i, j \in RefreshOps :
    ops[i].batch = ops[j].batch =>
      /\ ops[i].req = ops[j].req
      /\ (ops[i].st # "pending" /\ ops[j].st # "pending") =>
            (ops[i].st = ops[j].st /\ ops[i].tok = ops[j].tok)

\* C2: the live session never holds exactly one of access token and refresh
\* token.
C2_SessionNeverHalfPopulated ==
  (authToken = Null) <=> (refreshTokenValue = Null)

\* C3: every logout ends with no access-token, refresh-token or user entry
\* in the token store, whatever the outcome of the server-side request.
C3_LogoutAlwaysClears ==
  \A c \in CallIds :
    (calls[c].kind = "logout" /\ calls[c].pc = "done") =>
      calls[c].endStore = EmptyStore

\* C4: a login, register or refresh that was suspended on the network when
\* logout ran does not write tokens when it completes.
C4_LogoutSafeDuringSuspendedOp ==
  [][\A i \in DOMAIN ops :
       (ops[i].st = "pending" /\ ops[i].stale /\ ops'[i].st # "pending") =>
         /\ authToken' \in {authToken, Null}
         /\ refreshTokenValue' \in {refreshTokenValue, Null}]_vars

\* calls whose first response was an authorization failure and whose
\* handling has gone past the refresh
Handled401 ==
  {c \in CallIds : calls[c].retry /\ calls[c].pc \in {"sent", "done"}}

C8_RetryMarker ==
  \A c \in CallIds :
    /\ calls[c].nRefresh <= 1
    /\ calls[c].nSend <= 2
    /\ (calls[c].nSend = 2 /\ calls[c].status = "401") =>
          /\ calls[c].pc = "done"
          /\ calls[c].result = "unauthorized"
          /\ calls[c].nRefresh = 1

C8_Witness ==
  \E c \in CallIds :
    /\ calls[c].pc = "done"
    /\ calls[c].nSend = 2
    /\ calls[c].status = "401"
    /\ calls[c].nRefresh = 1
    /\ calls[c].result = "unauthorized"

\* C9: a call whose refresh failed fails as unauthorized, and the store
\* holds no access-token, refresh-token or user entry when it does.
C9_RefreshFailureForcesLogout ==
  \A c \in CallIds :
    (calls[c].refreshed = "failed" /\ calls[c].pc = "done") =>
      /\ calls[c].result = "unauthorized"
      /\ calls[c].endStore = EmptyStore
      /\ calls[c].nSend = 1

C9_Witness ==
  \E c \in CallIds :
    /\ calls[c].refreshed = "failed"
    /\ calls[c].pc = "done"
    /\ calls[c].sentRT # Null
    /\ storage = EmptyStore

\* ======================================================================
\* Connection services and event emitter: properties
\* ======================================================================

ExpectedDelays == <<1000, 2000, 4000, 8000, 16000>>

\* C5: the k-th consecutive reconnect attempt (k = 1..5, no open in
\* between) is armed with 1000 * 2^(k-1) ms: 1000, 2000, 4000, 8000, 16000.
C5_BackoffSequence ==
  /\ Len(armed) <= Len(ExpectedDelays)
  /\ \A k \in DOMAIN armed : armed[k] = ExpectedDelays[k]
  /\ consecFail <= maxReconnectAttempts => Len(armed) = consecFail
  /\ \A d \in BagToSet(timers) : d \in Range(ExpectedDelays)

C5_Witness ==
  /\ consecFail = 5
  /\ Len(armed) = 5
  /\ armed[5] = 16000
  /\ BagIn(16000, timers)

Failed == consecFail > maxReconnectAttempts

\* a connection attempt is made in this step: connect() is entered or a
\* transport is created
AttemptMade ==
  \/ BagCardinality(conn') > BagCardinality(conn)
  \/ \E h \in Handles : transports[h] = "none" /\ transports'[h] = "connecting"

\* C6: the 6th consecutive failure arms no reconnect timer, and from then
\* on (until a transport opens) the service makes no connection attempt.
C6_FailedIsTerminal ==
  [][/\ (Failed' /\ ~Failed) => timers' = timers
     /\ Failed => ~AttemptMade]_vars

\* C10: once off(event, callback) has returned, and until the callback is
\* registered on the event again, no inbound message invokes the callback
\* for that event.
C10_NoDispatchAfterOff ==
  [][emitted' # emitted =>
       \A k \in DOMAIN emitted'.invoked :
         <<emitted'.event, emitted'.invoked[k]>> \notin offd]_vars

\* a message is dispatched to g on an event where f has been unsubscribed
C10_Witness ==
  /\ <<emitted.event, "f">> \in offd
  /\ emitted.invoked = <<"g">>
  /\ \E h \in Handles : transports[h] = "open"

\* the service holds a transport that is connecting or open
Live == socket # Null /\ transports[socket] \in {"connecting", "open"}

\* a transport is created in this step
Creates ==
  \E h \in Handles : transports[h] = "none" /\ transports'[h] = "connecting"

\* C13: connect() running while the service holds a connecting or open
\* transport is a no-op: it creates no transport and the held one is kept.
C13_ConnectIdempotent ==
  [][(Live /\ disconnects' = disconnects) =>
       (~Creates /\ socket' = socket)]_vars

\* C14: once disconnect() has been called no transport is connecting or
\* open, whatever connect() invocation was suspended at the time.
C14_DisconnectIsTerminal ==
  disconnects > 0 =>
    \A h \in Handles : transports[h] \notin {"connecting", "open"}

\* C15: once disconnect() has been called no reconnect timer is pending:
\* the pending ones are disarmed and the close it causes arms none.
C15_DisconnectDisarmsTimer ==
  disconnects > 0 => timers = EmptyBag

\* C16: disconnect() closes the held transport, touching no other, and
\* drops the reference; called when no transport is held it performs no
\* transport operation.
C16_DisconnectIdempotent ==
  [][disconnects' # disconnects =>
       /\ socket' = Null
       /\ IF socket = Null
          THEN transports' = transports
          ELSE /\ transports'[socket] \notin {"connecting", "open"}
               /\ \A h \in Handles \ {socket} :
                    transports'[h] = transports[h]]_vars

\* disconnect() has been called twice; the first call closed the open
\* WebSocket, which has not reported its close yet, and the second found
\* no transport to close
C16_Witness ==
  /\ disconnects = 2
  /\ socket = Null
  /\ variant = "native"
  /\ \E h \in Handles : transports[h] = "closing"
  /\ timers = EmptyBag /\ conn = EmptyBag

\* the held transport is open
Connected == \E h \in Handles : h = socket /\ transports[h] = "open"

\* C17: an outbound emitter called while the channel is not connected
\* writes no frame and changes nothing of the connection, and no frame is
\* written later on its behalf: frames are written only by a call made
\* while connected.
C17_SendWhenNotConnected ==
  [][/\ (sends'.calls # sends.calls /\ ~Connected) =>
          /\ sends'.frames = sends.frames
          /\ UNCHANGED <<socket, transports, reconnectAttempts, timers, conn>>
     /\ sends'.frames # sends.frames =>
          (Connected /\ sends'.calls = sends.calls + 1)]_vars

\* an emitter was called while the transport was still connecting
C17_Witness ==
  /\ sends.calls = 1
  /\ sends.frames = 0
  /\ socket # Null
  /\ transports[socket] = "connecting"
  /\ reconnectAttempts = 0

\* a token refresh succeeds in this step: refreshToken of the AuthProvider
\* receives its access token, or the gateway receives or stores one
RefreshSucceeds ==
  \/ \E i \in DOMAIN ops :
       ops[i].kind = "refresh" /\ ops[i].st = "pending" /\ ops'[i].st = "ok"
  \/ \E c \in CallIds :
       \/ calls[c].pc = "refreshing" /\ calls'[c].pc = "storing"
       \/ calls[c].pc = "storing" /\ calls'[c].pc # "storing"

\* C20: a token refresh that succeeds while the channel is connected
\* leaves the connection as it is: same open transport, no transport
\* created, no connect() started, attempt counter and timers unchanged.
C20_RefreshKeepsConnection ==
  [][(RefreshSucceeds /\ Connected) =>
       /\ Connected'
       /\ ~Creates
       /\ UNCHANGED <<socket, transports, reconnectAttempts, timers, conn>>]_vars

\* the channel is connected, the gateway has stored a refreshed access
\* token and the AuthProvider's interval has refreshed its own
C20_Witness ==
  /\ Connected
  /\ \E c \in CallIds :
       /\ calls[c].refreshed = "ok"
       /\ calls[c].pc \in {"reqIntercept", "sent", "done"}
       /\ storage["access_token"] = calls[c].access
  /\ \E i \in DOMAIN ops : ops[i].kind = "refresh" /\ ops[i].st = "ok"

\* the topic each known message type is delivered on
KnownTopic ==
  [ty \in {"driver_location_update", "booking_update",
           "schedule_status_update", "notification"} |->
     CASE ty = "driver_location_update" -> "location_update"
       [] ty = "booking_update"         -> "booking_update"
       [] ty = "schedule_status_update" -> "schedule_update"
       [] ty = "notification"           -> "notification"]

Count(cbs, cb) == Cardinality({k \in DOMAIN cbs : cbs[k] = cb})

C30_UnknownDropped ==
  [][(emitted' # emitted /\ emitted'.type \in {"unknown", "unparsable"}) =>
       /\ emitted'.invoked = <<>>
       /\ emitted'.event \notin Topics
       /\ UNCHANGED <<listeners, wsVars>>]_vars

C30_Witness ==
  /\ emitted.type \in {"unknown", "unparsable"}
  /\ emitted.invoked = <<>>
  /\ listeners["location_update"] # <<>>
  /\ listeners["notification"] # <<>>

\* C33: the 401 handler of the gateway neither writes nor erases an entry
\* of the stored session: a step of a data request leaves AsyncStorage as
\* it is.
C33_GatewayNeverWritesSession ==
  [][\A c \in CallIds :
       (calls[c].kind = "data" /\ calls'[c] # calls[c]) =>
         storage' = storage]_vars

\* C34: at most one transport is connecting or open and at most one
\* reconnect timer is pending, in every reachable state.
C34_OneLogicalChannel ==
  /\ Cardinality({h \in Handles :
                    transports[h] \in {"connecting", "open"}}) <= 1
  /\ BagCardinality(timers) <= 1

\* C37: the attempt counter stays within 0 .. maxReconnectAttempts, and at
\* most maxReconnectAttempts timers are armed between two opens.
C37_AttemptsBounded ==
  /\ reconnectAttempts \in 0 .. maxReconnectAttempts
  /\ Len(armed) <= maxReconnectAttempts

\* a failure arrived with the counter at its maximum and left it there
C37_Witness ==
  /\ reconnectAttempts = maxReconnectAttempts
  /\ consecFail > maxReconnectAttempts
  /\ Len(armed) = maxReconnectAttempts

\* a connect() that found the token or the user missing returns in this
\* step
ConnectSkips ==
  \E x \in BagToSet(conn) :
    /\ x.pc = "readUser"
    /\ x.token = Null \/ storage["user"] = Null
    /\ CopiesIn(x, conn') < CopiesIn(x, conn)

\* C38: connect() that finds no access token or no user stored creates no
\* transport, arms no timer and leaves the attempt counter and the held
\* reference as they are; a timer that fires after the session was removed
\* so ends the reconnect chain.
C38_ConnectWithoutSessionSkips ==
  [][ConnectSkips =>
       /\ transports' = transports
       /\ socket' = socket
       /\ timers' = timers
       /\ reconnectAttempts' = reconnectAttempts
       /\ BagCardinality(conn') < BagCardinality(conn)]_vars

\* a reconnect chain has ended on a removed session: attempts were made,
\* nothing is pending, no transport is connecting or open
C38_Witness ==
  /\ storage = EmptyStore
  /\ reconnectAttempts \in 1 .. maxReconnectAttempts - 1
  /\ consecFail = reconnectAttempts
  /\ timers = EmptyBag
  /\ conn = EmptyBag
  /\ \A h \in Handles : transports[h] \notin {"connecting", "open", "closing"}

\* C39: a 401 met with no refresh token stored posts no refresh, does not
\* send the request again, rejects the call with the 401, and leaves every
\* entry of AsyncStorage as it is.
C39_NoRefreshTokenNoRefresh ==
  [][\A c \in CallIds :
       (/\ calls[c].pc = "readRT"
        /\ storage["refresh_token"] = Null
        /\ calls'[c] # calls[c]) =>
         /\ calls'[c].pc = "done"
         /\ calls'[c].result = "unauthorized"
         /\ calls'[c].nRefresh = 0
         /\ calls'[c].nSend = 1
         /\ calls'[c].endStore = storage
         /\ storage' = storage]_vars

C39_Witness ==
  \E c \in CallIds :
    /\ calls[c].pc = "done"
    /\ calls[c].status = "401"
    /\ calls[c].retry
    /\ calls[c].result = "unauthorized"
    /\ calls[c].nRefresh = 0
    /\ calls[c].nSend = 1
    /\ calls[c].endStore["refresh_token"] = Null
    /\ calls[c].endStore["user"] # Null

\* the handler of a message starts in this step
HandlerStarts == dispatch'.n # dispatch.n

\* C31: messages are dispatched one after the other: when the handler of
\* a message starts, no callback of the message before it is still to be
\* invoked, and a step of forEach invokes one callback, the next in order.
C31_DispatchInMessageOrder ==
  [][/\ HandlerStarts => ~Running
     /\ (dispatch' # dispatch /\ ~HandlerStarts) =>
          /\ Running
          /\ dispatch'.called =
               Append(dispatch.called, dispatch.arr[dispatch.idx])]_vars

\* the second message has been dispatched to f and g
C31_Witness ==
  /\ dispatch.n = 2
  /\ dispatch.called = <<"f", "g">>
  /\ ~Running

\* C32: a callback that throws does not keep the other listeners of the
\* topic from being invoked: when the handler is over every callback that
\* was registered when it started has been invoked.
C32_ThrowingListenerIsolated ==
  ~Running => Len(dispatch.called) = Len(dispatch.first)

\* C40: changes of the listener set made by a callback during a dispatch
\* do not change that dispatch: the callbacks invoked are those registered
\* when it started, in order, whether a callback unsubscribed one of them
\* or subscribed a new one meanwhile.
C40_ChangesApplyToNextMessage ==
  /\ \A k \in DOMAIN dispatch.called :
       k \in DOMAIN dispatch.first /\ dispatch.called[k] = dispatch.first[k]
  /\ (~Running /\ ~dispatch.thrown) => dispatch.called = dispatch.first

\* f unsubscribed g while it ran, and g was still invoked
C40_Witness ==
  /\ ~Running
  /\ ~dispatch.same
  /\ dispatch.first = <<"f", "g">>
  /\ dispatch.called = <<"f", "g">>
  /\ listeners[dispatch.event] = <<"f">>

\* a transport is closed by disconnect() in this step, or the close that
\* disconnect() caused is reported
UserCloses ==
  \/ disconnects' # disconnects
  \/ \E h \in Handles :
       transports[h] = "closing" /\ transports'[h] # "closing"

\* C36: the two services react alike to the same events and calls. For
\* disconnect() on a transport that has not opened, the socket.io class
\* leaves the attempt counter and the timers alone, so the same holds of
\* every step by which either class closes such a transport.
C36_VariantsReactAlike ==
  [][UserCloses =>
       /\ reconnectAttempts' = reconnectAttempts
       /\ timers' = timers]_vars

\* the AuthProvider's session ends in this step (logout, or clearAuth
\* after a failed refresh)
SessionEnds ==
  /\ authToken # Null \/ refreshTokenValue # Null
  /\ authToken' = Null /\ refreshTokenValue' = Null

\* the service is connecting, connected or reconnecting
ChannelActive ==
  \/ \E h \in Handles : transports[h] \in {"connecting", "open"}
  \/ timers # EmptyBag
  \/ conn # EmptyBag

\* C21: when the session ends while the channel is connecting, connected
\* or reconnecting, the service disconnects at once: afterwards no
\* transport is connecting or open, no reference is held, and no reconnect
\* timer or connect() is pending.
C21_LogoutDisconnects ==
  [][(SessionEnds /\ ChannelActive) =>
       /\ \A h \in Handles : transports'[h] \notin {"connecting", "open"}
       /\ socket' = Null
       /\ timers' = EmptyBag
       /\ conn' = EmptyBag]_vars

\* C22: a successful refresh replaces the access token by the one the
\* server returned and leaves the refresh token as it was: the refresh
\* token held before the refresh is still held after it (AuthProvider
\* state and AsyncStorage alike; in AsyncStorage the user entry stays too).
C22_RefreshKeepsRefreshToken ==
  [][/\ \A i \in DOMAIN ops :
          (/\ ops[i].kind = "refresh"
           /\ ops[i].st = "pending"
           /\ ops'[i].st = "ok") =>
            /\ authToken' = ops'[i].tok
            /\ authToken' # authToken
            /\ refreshTokenValue' = refreshTokenValue
     /\ \A c \in CallIds :
          (calls[c].pc = "storing" /\ calls'[c].pc # "storing") =>
            /\ storage'["access_token"] = calls[c].access
            /\ storage'["access_token"] # storage["access_token"]
            /\ storage'["refresh_token"] = storage["refresh_token"]
            /\ storage'["user"] = storage["user"]]_vars

C22_Witness ==
  \E i \in DOMAIN ops :
    /\ ops[i].kind = "refresh"
    /\ ops[i].st = "ok"
    /\ authToken = ops[i].tok
    /\ ops[i].rt # Null
    /\ refreshTokenValue = ops[i].rt

\* C23: a refresh the server rejects, and a refreshToken() called with no
\* refresh token held, clear the whole session (access token, refresh
\* token, user) and the caller gets a failure: refreshToken() throws, the
\* gateway rejects the request.
C23_RejectedRefreshClearsSession ==
  [][/\ \A i \in DOMAIN ops :
          (ops[i].st = "pending" /\ ops'[i].cause = "rejected") =>
            /\ ops'[i].st = "failed"
            /\ authToken' = Null
            /\ refreshTokenValue' = Null
            /\ user' = Null
            /\ userData' = Null
     /\ \A i \in DOMAIN ops' \ DOMAIN ops :
          (ops'[i].kind = "refresh" /\ refreshTokenValue = Null) =>
            /\ ops'[i].st = "failed"
            /\ authToken' = Null
            /\ refreshTokenValue' = Null
            /\ user' = Null
            /\ userData' = Null
     /\ \A c \in CallIds :
          (/\ calls[c].pc = "clearing"
           /\ calls[c].cause = "rejected"
           /\ calls'[c].pc # "clearing") =>
            /\ storage' = EmptyStore
            /\ calls'[c].pc = "done"
            /\ calls'[c].result = "unauthorized"]_vars

C23_Witness ==
  /\ \E i \in DOMAIN ops :
       /\ ops[i].kind = "refresh"
       /\ ops[i].cause = "rejected"
       /\ ops[i].rt # Null
  /\ authToken = Null
  /\ refreshTokenValue = Null
  /\ user = Null
  /\ userData = Null

\* C24: a refresh that fails without an answer of the server (network
\* error, timeout) leaves the session in place: tokens and user are not
\* cleared.
C24_NetworkFailureKeepsSession ==
  [][/\ \A i \in DOMAIN ops :
          (ops[i].st = "pending" /\ ops'[i].cause = "network") =>
            UNCHANGED <<authToken, refreshTokenValue, user, userData>>
     /\ \A c \in CallIds :
          (/\ calls[c].pc = "clearing"
           /\ calls[c].cause = "network"
           /\ calls'[c].pc # "clearing") =>
            storage' = storage]_vars

\* refresh tokens the server has rejected
RejectedTokens ==
  {ops[i].rt : i \in {j \in DOMAIN ops : ops[j].cause = "rejected"}}
    \cup {calls[c].sentRT :
            c \in {b \in DOMAIN calls : calls[b].cause = "rejected"}}

\* C25: once the server has rejected a refresh token, no refresh request
\* sent afterwards (by refreshToken, called directly or by the timer, or
\* by the gateway's 401 handler) carries that token.
C25_RejectedTokenNeverResent ==
  [][/\ \A i \in DOMAIN ops' \ DOMAIN ops :
          (ops'[i].kind = "refresh" /\ ops'[i].st = "pending") =>
            ops'[i].rt \notin RejectedTokens
     /\ \A c \in DOMAIN calls :
          calls'[c].nRefresh > calls[c].nRefresh =>
            calls'[c].sentRT \notin RejectedTokens]_vars

C27_LoginClearsPreviousSession ==
  [][/\ \A i \in DOMAIN ops' \ DOMAIN ops :
          ops'[i].kind = "login" =>
            authToken' = Null /\ refreshTokenValue' = Null /\ user' = Null
     /\ \A i \in DOMAIN ops :
          (/\ ops[i].kind = "login"
           /\ ops[i].st = "pending"
           /\ ops'[i].st = "failed") =>
            authToken' = Null /\ refreshTokenValue' = Null /\ user' = Null]_vars

\* a transport that disconnect() closed reports its close in this step
ClosedByUser ==
  \/ disconnects' # disconnects
  \/ \E h \in Handles : transports[h] = "closing" /\ transports'[h] # "closing"

\* a transport opens in this step
Opens ==
  \E h \in Handles : transports[h] = "connecting" /\ transports'[h] = "open"

\* C18: the attempt counter changes only by being set to 0 when a transport
\* opens and by growing by 1 on an open failure or an unexpected close; no
\* operation of the service and no other event changes it.
C18_AttemptCounterDiscipline ==
  [][reconnectAttempts' # reconnectAttempts =>
       \/ reconnectAttempts' = 0 /\ Opens
       \/ reconnectAttempts' = reconnectAttempts + 1 /\ ~ClosedByUser]_vars

\* C19: every disconnect() leaves the attempt counter at 0.
C19_DisconnectClearsAttempts ==
  [][disconnects' # disconnects => reconnectAttempts' = 0]_vars

\* the latest event was a failure (open failure or unexpected close) that
\* found the attempt counter below its maximum, and no transport is being
\* opened
AwaitingRetry ==
  /\ consecFail \in 1 .. maxReconnectAttempts
  /\ storage["access_token"] # Null /\ storage["user"] # Null
  /\ \A h \in Handles : transports[h] # "connecting"

RemoveAt(cbs, k) ==
  [j \in 1 .. Len(cbs) - 1 |-> IF j < k THEN cbs[j] ELSE cbs[j + 1]]

\* C11: a step that takes registrations away (off) takes away exactly one:
\* every other registration, the same callback registered once more on the
\* same event included, stays in the listener set.
C11_OffRemovesExactlyOne ==
  [][(\E t \in Topics : Len(listeners'[t]) < Len(listeners[t])) =>
       \E t \in Topics : \E k \in DOMAIN listeners[t] :
         listeners' = [listeners EXCEPT ![t] = RemoveAt(@, k)]]_vars

\* C12: off is idempotent: for a registration off has already removed, and
\* for an event that holds no listener, a further off(event, callback)
\* leaves the listener set as it is.
C12_OffIdempotent ==
  \A t \in Topics, cb \in Callbacks :
    (<<t, cb>> \in offd \/ listeners[t] = <<>>) =>
      OffResult(t, cb) = listeners

\* f has been removed from an event on which g is still registered, and
\* removing f again leaves g's registration
C12_Witness ==
  \E t \in Topics :
    /\ <<t, "f">> \in offd
    /\ listeners[t] = <<"g">>
    /\ OffResult(t, "f") = listeners

Init ==
  /\ nextTok \in {1, 2}
  /\ AuthInit
  /\ GatewayInit
  /\ (nextTok = 2) = (storage # EmptyStore)
  /\ WsInit
  /\ RouterInit

\* AuthProvider on a fresh installation
AuthStart0 ==
  /\ Init
  /\ variant = "native"
  /\ storage = EmptyStore

SpecAuth == AuthStart0 /\ [][NextAuth]_vars

\* the gateway, with or without a session left in AsyncStorage
GatewayStart ==
  /\ Init
  /\ variant = "native"

SpecGateway == GatewayStart /\ [][NextGateway]_vars

\* the gateway used by callers whose requests are in flight together
\* while the server answers 401
NextRace ==
  \/ \E c \in RaceIds : CallStart(c, "data")
  \/ \E c \in RaceIds : ReqIntercept(c)
  \/ \E c \in RaceIds, st \in {"ok", "401", "error"} : Respond(c, st)
  \/ \E c \in RaceIds : ReadRT(c)
  \/ \E c \in RaceIds, o \in {"ok", "rejected", "network"} :
       RefreshRespond(c, o)
  \/ \E c \in RaceIds : StoreDone(c)
  \/ \E c \in RaceIds : ClearDone(c)

SpecConcurrent == GatewayStart /\ [][NextRace]_vars

\* a service that reconnects by itself, is disconnected by the feature
\* code at most once, and whose stored session may be removed
NextWS ==
  \/ Reconnection
  \/ disconnects = 0 /\ disconnect
  \/ clearStoredData

SpecWS == Init /\ [][NextWS]_vars

\* a service on which the feature code calls disconnect() repeatedly
SpecDisconnect == Init /\ [][NextConn]_vars

\* the event emitter of a service that starts with a stored session and
\* goes through reconnections in which every transport reports one failure
RouterStart ==
  /\ Init
  /\ storage # EmptyStore

NextRouterSpec ==
  \/ NextRouter
  \/ \E d \in BagToSet(timers) : TimerFire(d)
  \/ \E x \in BagToSet(conn) : ConnectReadToken(x)
  \/ \E x \in BagToSet(conn) : ConnectReadUser(x)
  \/ \E h \in Handles : SioConnect(h)
  \/ \E h \in Handles : SioConnectError(h, FALSE)
  \/ \E h \in Handles : SioDisconnect(h, FALSE)
  \/ \E h \in Handles : WsOpen(h)
  \/ \E h \in Handles : WsClose(h)

SpecRouter == RouterStart /\ [][NextRouterSpec]_vars

\* the event emitter of a service whose listeners are registered while
\* the first transport is the only one, and whose messages arrive on the
\* transports that reconnection created afterwards
FirstTransportOnly == \A h \in Handles \ {1} : transports[h] = "none"

NextReplaced ==
  \/ \E t \in ListenedEvents, cb \in Callbacks :
       FirstTransportOnly /\ on(t, cb)
  \/ \E h \in Handles \ {1}, ty \in MessageTypes, d \in Data :
       Message(h, ty, d)
  \/ \E d \in BagToSet(timers) : TimerFire(d)
  \/ \E x \in BagToSet(conn) : ConnectReadToken(x)
  \/ \E x \in BagToSet(conn) : ConnectReadUser(x)
  \/ \E h \in Handles : SioConnect(h)
  \/ \E h \in Handles : SioConnectError(h, FALSE)
  \/ \E h \in Handles : SioDisconnect(h, FALSE)
  \/ \E h \in Handles : WsOpen(h)
  \/ \E h \in Handles : WsClose(h)

SpecReplaced == RouterStart /\ [][NextReplaced]_vars

\* a service of either class none of whose transports opens: they fail
\* to open, or the feature code disconnects first
NextUnopened ==
  \/ \E d \in BagToSet(timers) : TimerFire(d)
  \/ \E x \in BagToSet(conn) : ConnectReadToken(x)
  \/ \E x \in BagToSet(conn) : ConnectReadUser(x)
  \/ \E h \in Handles : SioConnectError(h, FALSE)
  \/ \E h \in Handles : WsClose(h)
  \/ disconnect

SpecUnopened == RouterStart /\ [][NextUnopened]_vars

\* a service with a stored session, which may be renewed, whose
\* transports fail and close at any time; pending timers fire and awaited
\* reads complete
NextRecover ==
  \/ storeAuthTokens
  \/ \E d \in BagToSet(timers) : TimerFire(d)
  \/ \E x \in BagToSet(conn) : ConnectReadToken(x)
  \/ \E x \in BagToSet(conn) : ConnectReadUser(x)
  \/ \E h \in Handles : SioConnect(h)
  \/ \E h \in Handles : SioConnectError(h, FALSE)
  \/ \E h \in Handles : SioDisconnect(h, FALSE)
  \/ \E h \in Handles : WsOpen(h)
  \/ \E h \in Handles : WsClose(h)

SpecRecover ==
  /\ RouterStart
  /\ [][NextRecover]_vars
  /\ WF_vars(\E d \in BagToSet(timers) : TimerFire(d))
  /\ WF_vars(\E x \in BagToSet(conn) : ConnectReadToken(x))
  /\ WF_vars(\E x \in BagToSet(conn) : ConnectReadUser(x))

\* the event emitter of a connected service whose callbacks may throw and
\* may call on / off while a message is dispatched
NextDispatch ==
  \/ \E x \in BagToSet(conn) : ConnectReadToken(x)
  \/ \E x \in BagToSet(conn) : ConnectReadUser(x)
  \/ \E h \in Handles : SioConnect(h)
  \/ \E h \in Handles : WsOpen(h)
  \/ \E t \in ListenedEvents, cb \in Callbacks : HandlerIdle /\ on(t, cb)
  \/ \E t \in ListenedEvents, cb \in Callbacks : HandlerIdle /\ off(t, cb)
  \/ \E h \in Handles, ty \in MessageTypes : Arrive(h, ty)
  \/ \E does \in {"return", "throw", "off", "on"}, cb \in Callbacks :
       Invoke(does, cb)

SpecDispatch == RouterStart /\ [][NextDispatch]_vars

\* a service whose feature code calls the outbound emitters at any time
NextSend ==
  \/ \E d \in BagToSet(timers) : TimerFire(d)
  \/ \E x \in BagToSet(conn) : ConnectReadToken(x)
  \/ \E x \in BagToSet(conn) : ConnectReadUser(x)
  \/ \E h \in Handles : SioConnect(h)
  \/ \E h \in Handles : SioConnectError(h, FALSE)
  \/ \E h \in Handles : SioDisconnect(h, FALSE)
  \/ \E h \in Handles : WsOpen(h)
  \/ \E h \in Handles : WsClose(h)
  \/ disconnect
  \/ \E e \in OutboundEmitters : send(e)

SpecSend == RouterStart /\ [][NextSend]_vars

\* a connected client whose tokens are refreshed: the refresh responses
\* of the AuthProvider and of the gateway arrive while the channel is
\* connected
NextRefresh ==
  \/ \E x \in BagToSet(conn) : ConnectReadToken(x)
  \/ \E x \in BagToSet(conn) : ConnectReadUser(x)
  \/ \E h \in Handles : SioConnect(h)
  \/ \E h \in Handles : WsOpen(h)
  \/ \E h \in Handles : SioDisconnect(h, FALSE)
  \/ \E h \in Handles : WsClose(h)
  \/ \E d \in BagToSet(timers) : TimerFire(d)
  \/ RefreshStart("timer")
  \/ isConnected /\ \E i \in DOMAIN ops : RefreshDone(i, "ok")
  \/ \E c \in CallIds : CallStart(c, "data")
  \/ \E c \in CallIds : ReqIntercept(c)
  \/ \E c \in CallIds, st \in {"ok", "401"} : Respond(c, st)
  \/ \E c \in CallIds : ReadRT(c)
  \/ isConnected /\ \E c \in CallIds : RefreshRespond(c, "ok")
  \/ isConnected /\ \E c \in CallIds : StoreDone(c)

\* the application is started with a session in both stores:
\* useLocalStorage has read the AuthProvider's copy and initializeAuth
\* has verified it
SessionRestored ==
  /\ nextTok = 2
  /\ user = 1 /\ authToken = 1 /\ refreshTokenValue = 1 /\ userData = 1
  /\ ops = <<>>
  /\ GatewayInit
  /\ storage # EmptyStore
  /\ WsInit
  /\ RouterInit

SpecRefresh == SessionRestored /\ [][NextRefresh]_vars

\* a client with a restored session whose user logs out, or whose
\* refresh fails, at any moment of the channel's life
NextLogout ==
  \/ \E x \in BagToSet(conn) : ConnectReadToken(x)
  \/ \E x \in BagToSet(conn) : ConnectReadUser(x)
  \/ \E h \in Handles : SioConnect(h)
  \/ \E h \in Handles : SioConnectError(h, FALSE)
  \/ \E h \in Handles : SioDisconnect(h, FALSE)
  \/ \E h \in Handles : WsOpen(h)
  \/ \E h \in Handles : WsClose(h)
  \/ \E d \in BagToSet(timers) : TimerFire(d)
  \/ logout
  \/ \E caller \in {"direct", "timer"} : RefreshStart(caller)
  \/ \E i \in DOMAIN ops, o \in {"ok", "invalid", "rejected", "network"} :
       RefreshDone(i, o)

SpecLogout == SessionRestored /\ [][NextLogout]_vars

\* a client with a restored session in each of the two stores. The
\* AuthProvider and the gateway share no state, so the refreshes of each
\* are followed with the other at rest
SessionStart ==
  /\ SessionRestored
  /\ variant = "native"

GatewayAtRest == \A c \in CallIds : calls[c].pc = "idle"

ProviderAtRest == ops = <<>>

NextSession ==
  \/ \E caller \in {"direct", "timer"} :
       GatewayAtRest /\ RefreshStart(caller)
  \/ \E i \in DOMAIN ops, o \in {"ok", "invalid", "rejected", "network"} :
       RefreshDone(i, o)
  \/ logout
  \/ \E c \in CallIds : ProviderAtRest /\ CallStart(c, "data")
  \/ \E c \in CallIds : ReqIntercept(c)
  \/ \E c \in CallIds, st \in {"ok", "401", "error"} : Respond(c, st)
  \/ \E c \in CallIds : ReadRT(c)
  \/ \E c \in CallIds, o \in {"ok", "rejected", "network"} :
       RefreshRespond(c, o)
  \/ \E c \in CallIds : StoreDone(c)
  \/ \E c \in CallIds : ClearDone(c)

SpecSession == SessionStart /\ [][NextSession]_vars

====
